---- MODULE Spec2Model ----
(***************************************************************************)
(* Turn-based combat core of bevy-wasm-fsharp-ref:                         *)
(*   crates/logic-fsharp/src/lib.rs  - Character, Ability, AbilitySlot,    *)
(*                                     compute_attack, AbilityWithMeta,    *)
(*                                     choose_monster_action               *)
(*   crates/app/src/lib.rs           - MonsterAbilities, CombatState,      *)
(*                                     CombatLog, MonsterTurnTimer,        *)
(*                                     handle_player_turn,                 *)
(*                                     handle_monster_turn, check_game_over*)
(*                                                                         *)
(* The specifications share the variables:                                 *)
(*   SpecAttack - compute_attack applied to bounded inputs                 *)
(*   SpecAI     - choose_monster_action applied to bounded inputs          *)
(*   SpecSlot   - one AbilitySlot under new / use_ability / tick           *)
(*   SpecSet    - one AbilitySet under get_ready_ability / tick_all        *)
(*   SpecLog    - one CombatLog of any small capacity under add            *)
(*   Spec       - the chained Update systems of the combat application     *)
(*   SpecMonsterFirst - Spec started in MonsterTurn                        *)
(*   SpecLive   - Spec with the key pressed, time advancing and fairness   *)
(*   SpecMissing - Spec with an actor that can disappear                   *)
(***************************************************************************)
EXTENDS Integers, Sequences, FiniteSets, TLC

VARIABLES
    build,            \* "debug" | "release": overflow checks on or off
    ca_in,            \* compute_attack: arguments, or "idle"
    ca_out,           \* compute_attack: "none" | "panic" | CombatEvent
    ai_in,            \* choose_monster_action: arguments, or "idle"
    ai_out,           \* choose_monster_action: "none" | Ability
    slot,             \* AbilitySlot under test, or "idle"
    slot_op,          \* last call made on slot
    ability_set,      \* AbilitySet.abilities under test
    set_out,          \* last call made on ability_set, with its result
    log,              \* CombatLog under test: [events, max_events]
    log_added,        \* every message passed to log.add, oldest first
    combat_state,     \* CombatState: [tag, winner]
    player,           \* the Player entity's Character
    monster,          \* the Monster entity's Character
    player_present,   \* players.iter_mut().next() is Some
    monster_present,  \* monsters.iter_mut().next() is Some
    monster_abilities,\* MonsterAbilities.abilities
    timer,            \* MonsterTurnTimer.timer: [elapsed, finished]
    combat_log,       \* CombatLog.events
    state_changed,    \* combat_state.is_changed() as check_game_over sees it
    pc,               \* next system of the Update chain, or "idle"
    last,             \* record of the last executed system
    waited,           \* time ticked in MonsterTurn since the turn began
    recent            \* abilities of the last executed monster turns

vars == <<build, ca_in, ca_out, ai_in, ai_out, slot, slot_op, ability_set,
          set_out, log, log_added, combat_state,
          player, monster, player_present, monster_present, monster_abilities,
          timer, combat_log, state_changed, pc, last, waited, recent>>

attackVars == <<ca_in, ca_out>>
aiVars     == <<ai_in, ai_out>>
slotVars   == <<slot, slot_op>>
setVars    == <<ability_set, set_out>>
logVars    == <<log, log_added>>
turnVars   == <<combat_state, player, monster, player_present, monster_present,
                monster_abilities, timer, combat_log, state_changed, pc, last,
                waited, recent>>

Max(a, b) == IF a >= b THEN a ELSE b
Min(a, b) == IF a <= b THEN a ELSE b

(***************************************************************************)
(* i32 arithmetic.  A debug build panics on overflow, a release build      *)
(* wraps modulo 2^32.  The wrapped value is computed without leaving the   *)
(* 32-bit range.                                                           *)
(***************************************************************************)
I32Max == 2147483647
I32Min == (-2147483647) - 1

AddOverflows(a, b) ==
    \/ (b > 0 /\ a > I32Max - b)
    \/ (b < 0 /\ a < I32Min - b)

I32Add(a, b) ==
    IF b > 0 /\ a > I32Max - b THEN (a + I32Min) + (b + I32Min)
    ELSE IF b < 0 /\ a < I32Min - b THEN (a - I32Min) + (b - I32Min)
    ELSE a + b

SubOverflows(a, b) ==
    \/ (b < 0 /\ a > I32Max + b)
    \/ (b > 0 /\ a < I32Min + b)

I32Sub(a, b) ==
    IF b < 0 /\ a > I32Max + b THEN (a + I32Min) - (b - I32Min)
    ELSE IF b > 0 /\ a < I32Min + b THEN (a - I32Min) - (b + I32Min)
    ELSE a - b

(***************************************************************************)
(* Stats, Character, Ability                                               *)
(***************************************************************************)
MkStats(hp, attack, defense) == [hp |-> hp, attack |-> attack, defense |-> defense]

MkCharacter(name, hp, stats) == [name |-> name, hp |-> hp, stats |-> stats]

new_player(name) == MkCharacter(name, 30, MkStats(30, 10, 2))

new_monster(name) == MkCharacter(name, 20, MkStats(20, 6, 1))

MkAbility(name, power) == [name |-> name, power |-> power]

basic_attack == MkAbility("Basic Attack", 5)

powerful_attack == MkAbility("Powerful Attack", 12)

heal == MkAbility("Heal", -8)

quick_strike == MkAbility("Quick Strike", 3)

(***************************************************************************)
(* compute_attack                                                          *)
(***************************************************************************)
\* lib.rs:724 without .max(1)
AttackDamage_NoFloor(attacker, defender, ability) ==
    IF ability.power < 0
    THEN ability.power
    ELSE I32Sub(I32Add(attacker.stats.attack, ability.power),
                defender.stats.defense)

AttackDamage(attacker, defender, ability) ==
    IF ability.power < 0
    THEN ability.power
    ELSE Max(I32Sub(I32Add(attacker.stats.attack, ability.power),
                    defender.stats.defense), 1)

AttackOverflows(attacker, defender, ability) ==
    \/ /\ ability.power >= 0
       /\ \/ AddOverflows(attacker.stats.attack, ability.power)
          \/ SubOverflows(I32Add(attacker.stats.attack, ability.power),
                          defender.stats.defense)
    \/ SubOverflows(defender.hp, AttackDamage(attacker, defender, ability))

compute_attack(attacker, defender, ability) ==
    LET dmg == AttackDamage(attacker, defender, ability)
        hp_after == I32Sub(defender.hp, dmg)
    IN  [attacker_name     |-> attacker.name,
         defender_name     |-> defender.name,
         damage            |-> dmg,
         defender_hp_after |-> hp_after,
         ability_used      |-> ability.name]

(***************************************************************************)
(* f32 values.  A whole number of magnitude below 2^30 is rounded to the   *)
(* 24 significant bits of an f32, ties to even.                            *)
(***************************************************************************)
F32MantissaBits == 24

\* an i32 magnitude n, 0 <= n < 2^30, converted to f32
F32RoundNat(n) ==
    IF n < 2^F32MantissaBits THEN n
    ELSE LET k == CHOOSE e \in F32MantissaBits..29 : 2^e <= n /\ n < 2^(e + 1)
             ulp  == 2^(k - (F32MantissaBits - 1))
             q    == n \div ulp
             r    == n % ulp
             up   == 2 * r > ulp \/ (2 * r = ulp /\ q % 2 = 1)
         IN  (IF up THEN q + 1 ELSE q) * ulp

\* x as f32
F32OfI32(x) == IF x < 0 THEN -F32RoundNat(-x) ELSE F32RoundNat(x)

(***************************************************************************)
(* AbilitySlot.  cooldown_max, cooldown_current and delta are f32 seconds; *)
(* they are counted here in units of 2^-27 seconds (0.5 is 2^26 units and  *)
(* the f32 literal 0.1 is 13421773 units).  The f32 difference of two such *)
(* values is their exact difference rounded to 24 significant bits;        *)
(* comparison and max are exact.                                           *)
(***************************************************************************)
\* a - b in f32
F32Sub(a, b) == F32OfI32(a - b)

AbilitySlot_new(ability, cooldown_max) ==
    [tag              |-> "slot",
     ability          |-> ability,
     cooldown_max     |-> cooldown_max,
     cooldown_current |-> 0]

slot_is_ready_Strict(s) == s.cooldown_current < 0

slot_is_ready(s) == s.cooldown_current <= 0

use_ability(s) == [s EXCEPT !.cooldown_current = s.cooldown_max]

tick_Min(s, delta) ==
    [s EXCEPT !.cooldown_current = Min(F32Sub(s.cooldown_current, delta), 0)]

tick_Unclamped(s, delta) ==
    [s EXCEPT !.cooldown_current = F32Sub(s.cooldown_current, delta)]

tick(s, delta) ==
    [s EXCEPT !.cooldown_current = Max(F32Sub(s.cooldown_current, delta), 0)]

cooldown_progress(s) ==
    IF s.cooldown_max <= 0 THEN 0
    ELSE Min(Max(s.cooldown_current, 0), s.cooldown_max)

(***************************************************************************)
(* AbilitySet: abilities is the Vec of slots, indexed from 0 in the code   *)
(* and from 1 here.                                                        *)
(***************************************************************************)
tick_all(abilities, delta) ==
    [i \in 1..Len(abilities) |-> tick(abilities[i], delta)]

Some(x) == [tag |-> "Some", value |-> x]

None == [tag |-> "None"]

\* abilities.get_mut(index) without the filter
get_ready_ability_Unfiltered(abilities, index) ==
    IF index < Len(abilities) THEN Some(abilities[index + 1]) ELSE None

\* abilities.get_mut(index).filter(|slot| slot.is_ready())
get_ready_ability(abilities, index) ==
    IF index < Len(abilities) /\ slot_is_ready(abilities[index + 1])
    THEN Some(abilities[index + 1])
    ELSE None

(***************************************************************************)
(* AbilityType, AbilityWithMeta                                            *)
(***************************************************************************)
AbilityType == {"BasicAttack", "PowerfulAttack", "Heal"}

MkAbilityWithMeta(ability, ability_type, cooldown, current_cooldown) ==
    [ability          |-> ability,
     ability_type     |-> ability_type,
     cooldown         |-> cooldown,
     current_cooldown |-> current_cooldown]

basic_attack_meta == MkAbilityWithMeta(basic_attack, "BasicAttack", 0, 0)

powerful_attack_meta == MkAbilityWithMeta(powerful_attack, "PowerfulAttack", 3, 0)

heal_meta == MkAbilityWithMeta(heal, "Heal", 4, 0)

is_ready(a) == a.current_cooldown = 0

tick_cooldown(a) ==
    [a EXCEPT !.current_cooldown = Max(I32Sub(a.current_cooldown, 1), 0)]

\* activate that starts the counter one turn short
activate_OneShort(a) == [a EXCEPT !.current_cooldown = Max(a.cooldown - 1, 0)]

activate(a) == [a EXCEPT !.current_cooldown = a.cooldown]

(***************************************************************************)
(* choose_monster_action                                                   *)
(*                                                                         *)
(* hp_percent = monster.hp as f32 / monster.stats.hp as f32 is compared    *)
(* with the f32 literals 0.3 and 0.7.                                      *)
(*   - `as f32` rounds an i32 to 24 significant bits, ties to even;        *)
(*   - the division is correctly rounded, ties to even; a zero divisor     *)
(*     gives +inf, -inf or NaN, and every comparison with NaN is false;    *)
(*   - 0.3f32 = 10066330 * 2^-25 and 0.7f32 = 11744051 * 2^-24.            *)
(* Rounding is monotonic, so the rounded quotient is below 0.3f32 exactly  *)
(* when the quotient of the two converted values is below the midpoint     *)
(* 20132659 * 2^-26 of 0.3f32 and its predecessor (the tie rounds to the   *)
(* even 0.3f32), and above 0.7f32 exactly when it is at least the midpoint *)
(* 23488103 * 2^-25 of 0.7f32 and its successor (the tie rounds up to the  *)
(* even successor).  Magnitudes stay below 2^30 here.                      *)
(***************************************************************************)
\* floor(r * 2^n / b) for 0 <= r < b < 2^30, by long division
RECURSIVE ScaledQuotient(_, _, _)
ScaledQuotient(r, b, n) ==
    IF n = 0 THEN 0
    ELSE IF 2 * r >= b
    THEN 2^(n - 1) + ScaledQuotient(2 * r - b, b, n - 1)
    ELSE ScaledQuotient(2 * r, b, n - 1)

\* midpoint below 0.3f32, in units of 2^-26
Below03 == 20132659

\* midpoint above 0.7f32, in units of 2^-25
Above07 == 23488103

Abs(x) == IF x < 0 THEN -x ELSE x

\* hp_percent <= 0.3
HpPercentLess_Inclusive(hp, maxhp) ==
    LET a == F32OfI32(hp)
        b == F32OfI32(maxhp)
    IN  IF b = 0 THEN a < 0
        ELSE IF a = 0 THEN TRUE
        ELSE IF (a < 0) # (b < 0) THEN TRUE
        ELSE IF Abs(a) > Abs(b) THEN FALSE
        ELSE IF Abs(a) = Abs(b) THEN FALSE
        ELSE ScaledQuotient(Abs(a), Abs(b), 26) <= Below03

\* hp_percent < 0.3
HpPercentLess(hp, maxhp) ==
    LET a == F32OfI32(hp)
        b == F32OfI32(maxhp)
    IN  IF b = 0 THEN a < 0
        ELSE IF a = 0 THEN TRUE
        ELSE IF (a < 0) # (b < 0) THEN TRUE
        ELSE IF Abs(a) >= Abs(b) THEN FALSE
        ELSE ScaledQuotient(Abs(a), Abs(b), 26) < Below03

\* hp_percent > 0.7
HpPercentGreater(hp, maxhp) ==
    LET a == F32OfI32(hp)
        b == F32OfI32(maxhp)
    IN  IF b = 0 THEN a > 0
        ELSE IF a = 0 THEN FALSE
        ELSE IF (a < 0) # (b < 0) THEN FALSE
        ELSE IF Abs(a) >= Abs(b) THEN TRUE
        ELSE ScaledQuotient(Abs(a), Abs(b), 25) >= Above07

\* usable.iter().find(|a| a.ability_type == t): index of the first entry of
\* type t with current_cooldown == 0, or 0 when there is none
FindUsable(abilities, t) ==
    LET hits == {i \in 1..Len(abilities) :
                    /\ abilities[i].current_cooldown = 0
                    /\ abilities[i].ability_type = t}
    IN  IF hits = {} THEN 0
        ELSE CHOOSE i \in hits : \A j \in hits : i <= j

\* find(first type) or else find(BasicAttack) or else Ability::basic_attack()
PreferThenBasic(abilities, t) ==
    IF FindUsable(abilities, t) # 0
    THEN abilities[FindUsable(abilities, t)].ability
    ELSE IF FindUsable(abilities, "BasicAttack") # 0
    THEN abilities[FindUsable(abilities, "BasicAttack")].ability
    ELSE basic_attack

choose_monster_action_Unfiltered(m, p, available_abilities) ==
    LET all == [i \in 1..Len(available_abilities) |->
                   [available_abilities[i] EXCEPT !.current_cooldown = 0]]
    IN  IF HpPercentLess(m.hp, m.stats.hp)
        THEN PreferThenBasic(all, "Heal")
        ELSE IF HpPercentGreater(m.hp, m.stats.hp)
        THEN PreferThenBasic(all, "PowerfulAttack")
        ELSE PreferThenBasic(all, "BasicAttack")

\* the monster turn of the tests' simulate_monster_attack, which always
\* uses Basic Attack
choose_monster_action_BasicOnly(m, p, available_abilities) == basic_attack

choose_monster_action(m, p, available_abilities) ==
    IF HpPercentLess(m.hp, m.stats.hp)
    THEN PreferThenBasic(available_abilities, "Heal")
    ELSE IF HpPercentGreater(m.hp, m.stats.hp)
    THEN PreferThenBasic(available_abilities, "PowerfulAttack")
    ELSE PreferThenBasic(available_abilities, "BasicAttack")

(***************************************************************************)
(* MonsterAbilities, CombatState, CombatLog, MonsterTurnTimer              *)
(***************************************************************************)
MonsterAbilities_new == <<basic_attack_meta, powerful_attack_meta, heal_meta>>

\* lib.rs:406 left out: no start-of-turn decrement
tick_cooldowns_Skipped(abilities) == abilities

tick_cooldowns(abilities) ==
    [i \in 1..Len(abilities) |-> tick_cooldown(abilities[i])]

\* abilities.iter_mut().find(|a| a.ability.name == ability_name), activated
activate_ability(abilities, ability_name) ==
    LET hits == {i \in 1..Len(abilities) : abilities[i].ability.name = ability_name}
    IN  IF hits = {} THEN abilities
        ELSE LET first == CHOOSE i \in hits : \A j \in hits : i <= j
             IN  [abilities EXCEPT ![first] = activate(abilities[first])]

PlayerTurn == [tag |-> "PlayerTurn", winner |-> ""]

MonsterTurn == [tag |-> "MonsterTurn", winner |-> ""]

GameOver(winner) == [tag |-> "GameOver", winner |-> winner]

\* CombatLog::new(10) of main
max_events == 10

CombatLog_new(capacity) == [events |-> <<>>, max_events |-> capacity]

\* a full log refuses the new message instead of evicting the oldest
CombatLog_add_KeepsOldest(l, message) ==
    IF Len(l.events) + 1 > l.max_events
    THEN l
    ELSE [l EXCEPT !.events = Append(l.events, message)]

\* CombatLog::add: push_back, then pop_front once the length exceeds max_events
CombatLog_add(l, message) ==
    LET pushed == Append(l.events, message)
    IN  [l EXCEPT !.events =
            IF Len(pushed) > l.max_events THEN Tail(pushed) ELSE pushed]

RECURSIVE CombatLog_add_all(_, _)
CombatLog_add_all(l, messages) ==
    IF messages = <<>> THEN l
    ELSE CombatLog_add_all(CombatLog_add(l, Head(messages)), Tail(messages))

\* Timer::from_seconds(1.0, TimerMode::Once), in half seconds
TimerDuration == 2

Timer_new == [elapsed |-> 0, finished |-> FALSE]

\* the timer keeps running instead of starting over
Timer_reset_KeepsElapsed(t) == t

\* Timer::tick for a TimerMode::Once timer
\* Timer::tick that never reports the timer as finished
Timer_tick_NeverFinishes(t, delta) ==
    [elapsed |-> Min(t.elapsed + delta, TimerDuration), finished |-> FALSE]

Timer_tick(t, delta) ==
    IF t.finished THEN t
    ELSE IF t.elapsed + delta >= TimerDuration
    THEN [elapsed |-> TimerDuration, finished |-> TRUE]
    ELSE [elapsed |-> t.elapsed + delta, finished |-> FALSE]

Timer_reset(t) == [elapsed |-> 0, finished |-> FALSE]

(***************************************************************************)
(* The log lines, as the tuple of the parts that format! joins.            *)
(***************************************************************************)
MsgCombatStart == <<"=== Combat Start ===">>

MsgPressSpace == <<"Press SPACE to attack on your turn!">>

MsgAttacks(event) ==
    <<"{} attacks {} for {} damage!", event.attacker_name, event.defender_name,
      event.damage>>

MsgHp(c) == <<"{} HP: {} / {}", c.name, c.hp, c.stats.hp>>

MsgDefeated(c) == <<"{} has been defeated!", c.name>>

MsgMonsterTurn == <<"--- Monster's Turn ---">>

MsgPlayerTurn == <<"--- Player's Turn ---">>

MsgHeals(c, ability, heal_amount) ==
    <<"{} uses {} and heals {} HP!", c.name, ability.name, heal_amount>>

MsgUses(event, ability) ==
    <<"{} uses {} on {} for {} damage!", event.attacker_name, ability.name,
      event.defender_name, event.damage>>

MsgGameOver == <<"=== GAME OVER ===">>

MsgWins(winner) == <<"{} wins!", winner>>

MsgClose == <<"Close the window to exit.">>

(***************************************************************************)
(* handle_player_turn                                                      *)
(***************************************************************************)
\* lib.rs:297, the system runs only in PlayerTurn
PlayerTurnGuard_NotMonsterTurn == combat_state.tag # "MonsterTurn"

PlayerTurnGuard_NotGameOver == combat_state.tag # "GameOver"

PlayerTurnGuard == combat_state = PlayerTurn

\* lib.rs:359-369, the state after the player's hit
PlayerTurnOutcome_DefenderWins(attacker, defender) ==
    IF defender.hp <= 0 THEN GameOver(defender.name) ELSE MonsterTurn

PlayerTurnOutcome(attacker, defender) ==
    IF defender.hp <= 0 THEN GameOver(attacker.name) ELSE MonsterTurn

\* last: the system that ran, whether it executed a turn, the actor of the
\* last executed turn and its ability, and whether the system saw the attack
\* key just pressed
Skipped(sys, pressed) ==
    [sys |-> sys, acted |-> FALSE, actor |-> last.actor, ability |-> "",
     pressed |-> pressed]

Acted(sys, actor, ability, pressed) ==
    [sys |-> sys, acted |-> TRUE, actor |-> actor, ability |-> ability.name,
     pressed |-> pressed]

\* one run of the system in a frame whose keys.just_pressed(Space) is
\* just_pressed
handle_player_turn_with(just_pressed) ==
    /\ pc = "handle_player_turn"
    /\ pc' = "handle_monster_turn"
    /\    IF ~PlayerTurnGuard \/ ~just_pressed \/ ~player_present \/ ~monster_present
          THEN /\ last' = Skipped("handle_player_turn", just_pressed)
               /\ UNCHANGED <<combat_state, monster, combat_log, state_changed,
                              waited>>
          ELSE LET ability   == basic_attack
                   event     == compute_attack(player, monster, ability)
                   monster_1 == [monster EXCEPT !.hp = event.defender_hp_after]
                   outcome   == PlayerTurnOutcome(player, monster_1)
               IN  /\ monster' = monster_1
                   /\ combat_state' = outcome
                   /\ state_changed' = TRUE
                   /\ combat_log' = CombatLog_add_all(combat_log,
                         <<MsgAttacks(event), MsgHp(monster_1),
                           IF outcome.tag = "GameOver"
                           THEN MsgDefeated(monster_1) ELSE MsgMonsterTurn>>)
                   /\ last' = Acted("handle_player_turn", "player", ability,
                                    just_pressed)
                   /\ waited' = 0
    /\ UNCHANGED <<build, attackVars, aiVars, slotVars, setVars, logVars, player, player_present,
                   monster_present, monster_abilities, timer, recent>>

handle_player_turn ==
    \E just_pressed \in BOOLEAN : handle_player_turn_with(just_pressed)

(***************************************************************************)
(* handle_monster_turn                                                     *)
(***************************************************************************)
\* lib.rs:506-516, the state after the monster's action
MonsterTurnOutcome_KeepsTurn(p, m) ==
    IF p.hp <= 0 THEN GameOver(m.name) ELSE MonsterTurn

\* lib.rs:506 with < in place of <=
MonsterTurnOutcome_ZeroSurvives(p, m) ==
    IF p.hp < 0 THEN GameOver(m.name) ELSE PlayerTurn

MonsterTurnOutcome(p, m) ==
    IF p.hp <= 0 THEN GameOver(m.name) ELSE PlayerTurn

MaxFrameDelta == 2

\* the ghost waited stops counting here; a frame that acts leaves it below
MaxWaited == TimerDuration + MaxFrameDelta

MaxHistory == 4

\* recent after a monster turn that used the ability
Remember(history, ability) ==
    LET all == Append(history, ability.name)
    IN  IF Len(all) > MaxHistory THEN Tail(all) ELSE all

\* lib.rs:430 without the cap
HealedHp_Uncapped(m, event) == event.defender_hp_after

\* lib.rs:430 with the healed value dropped
HealedHp_Discarded(m, event) == m.hp

\* lib.rs:430, the monster's hp after healing itself
HealedHp(m, event) == Min(event.defender_hp_after, m.stats.hp)

\* one run of the system in a frame whose time.delta() is delta
handle_monster_turn_with(delta) ==
    /\ pc = "handle_monster_turn"
    /\ pc' = "check_game_over"
    /\    IF combat_state # MonsterTurn
          THEN /\ last' = Skipped("handle_monster_turn", FALSE)
               /\ UNCHANGED <<combat_state, player, monster, monster_abilities,
                              timer, combat_log, state_changed, waited,
                              recent>>
          ELSE IF ~Timer_tick(timer, delta).finished
          THEN /\ timer' = Timer_tick(timer, delta)
               /\ waited' = Min(waited + delta, MaxWaited)
               /\ last' = Skipped("handle_monster_turn", FALSE)
               /\ UNCHANGED <<combat_state, player, monster, monster_abilities,
                              combat_log, state_changed, recent>>
          ELSE IF ~monster_present \/ ~player_present
          THEN /\ timer' = Timer_reset(Timer_tick(timer, delta))
               /\ monster_abilities' = tick_cooldowns(monster_abilities)
               /\ waited' = Min(waited + delta, MaxWaited)
               /\ last' = Skipped("handle_monster_turn", FALSE)
               /\ UNCHANGED <<combat_state, player, monster, combat_log,
                              state_changed, recent>>
          ELSE LET ticked    == tick_cooldowns(monster_abilities)
                   ability   == choose_monster_action(monster, player, ticked)
                   is_heal   == ability.power < 0
                   event     == IF is_heal
                                THEN compute_attack(monster, monster, ability)
                                ELSE compute_attack(monster, player, ability)
                   monster_1 == IF is_heal
                                THEN [monster EXCEPT !.hp = HealedHp(monster, event)]
                                ELSE monster
                   player_1  == IF is_heal THEN player
                                ELSE [player EXCEPT !.hp = event.defender_hp_after]
                   outcome   == MonsterTurnOutcome(player_1, monster_1)
                   action_lines ==
                       IF is_heal
                       THEN <<MsgHeals(monster_1, ability, -event.damage),
                              MsgHp(monster_1)>>
                       ELSE <<MsgUses(event, ability), MsgHp(player_1)>>
               IN  /\ timer' = Timer_reset(Timer_tick(timer, delta))
                   /\ monster_abilities' = activate_ability(ticked, ability.name)
                   /\ monster' = monster_1
                   /\ player' = player_1
                   /\ combat_state' = outcome
                   /\ state_changed' = TRUE
                   /\ combat_log' = CombatLog_add_all(combat_log,
                         action_lines \o
                         <<IF outcome.tag = "GameOver"
                           THEN MsgDefeated(player_1) ELSE MsgPlayerTurn>>)
                   /\ last' = Acted("handle_monster_turn", "monster", ability,
                                    FALSE)
                   /\ waited' = Min(waited + delta, MaxWaited)
                   /\ recent' = Remember(recent, ability)
    /\ UNCHANGED <<build, attackVars, aiVars, slotVars, setVars, logVars, player_present,
                   monster_present>>

handle_monster_turn ==
    \E delta \in 0..MaxFrameDelta : handle_monster_turn_with(delta)

(***************************************************************************)
(* check_game_over                                                         *)
(***************************************************************************)
\* lib.rs:527-531 without the is_changed() guard
Announces_WheneverGameOver(changed, state) == state.tag = "GameOver"

\* lib.rs:527-531, the run logs the game-over lines
Announces(changed, state) == changed /\ state.tag = "GameOver"

check_game_over ==
    /\ pc = "check_game_over"
    /\ pc' = "handle_player_turn"
    /\ state_changed' = FALSE
    /\ combat_log' =
          IF Announces(state_changed, combat_state)
          THEN CombatLog_add_all(combat_log,
                  <<MsgGameOver, MsgWins(combat_state.winner), MsgClose>>)
          ELSE combat_log
    /\ last' = Skipped("check_game_over", FALSE)
    /\ UNCHANGED <<build, attackVars, aiVars, slotVars, setVars, logVars,
                   combat_state, player, monster, player_present,
                   monster_present, monster_abilities, timer, waited, recent>>

(***************************************************************************)
(* Values the variables of a specification hold while it is not the one    *)
(* being run.                                                              *)
(***************************************************************************)
NoCall == [tag |-> "idle"]

NoResult == [tag |-> "none"]

IdleAttack == ca_in = NoCall /\ ca_out = NoResult

IdleAI == ai_in = NoCall /\ ai_out = NoResult

IdleSlot == slot = NoCall /\ slot_op = NoResult

IdleSet == ability_set = <<>> /\ set_out = NoResult

IdleLog == log = NoCall /\ log_added = <<>>

IdleTurn ==
    /\ combat_state = PlayerTurn
    /\ player = new_player("Hero")
    /\ monster = new_monster("Slime")
    /\ player_present = TRUE
    /\ monster_present = TRUE
    /\ monster_abilities = MonsterAbilities_new
    /\ timer = Timer_new
    /\ combat_log = CombatLog_new(max_events)
    /\ state_changed = FALSE
    /\ pc = "idle"
    /\ last = NoResult
    /\ waited = 0
    /\ recent = <<>>

(***************************************************************************)
(* SpecAttack: compute_attack on every triple of a bounded input space:    *)
(* small values around zero, the values of the constructors and the tests, *)
(* and the ends of the i32 range (the fields are plain pub i32; the tests  *)
(* build a character with i32::MAX stats).                                 *)
(***************************************************************************)
MaxStat == 3

Names == {"Hero", "Slime"}

AttackVals == (-MaxStat .. MaxStat) \cup {6, 10, I32Max}

DefenseVals == (-MaxStat .. MaxStat) \cup {100}

PowerVals == (-MaxStat .. MaxStat) \cup {5, 12, -8}

HpVals == {-10, 0, 1, 20, 30, I32Max}

InitAttack ==
    /\ build \in {"debug", "release"}
    /\ \E an \in Names, dn \in Names, atk \in AttackVals, def \in DefenseVals,
          pow \in PowerVals, hp \in HpVals :
          ca_in = [tag      |-> "args",
                   attacker |-> MkCharacter(an, 30, MkStats(30, atk, 2)),
                   defender |-> MkCharacter(dn, hp, MkStats(20, 6, def)),
                   ability  |-> MkAbility(IF pow < 0 THEN "Heal" ELSE "Test", pow)]
    /\ ca_out = NoResult
    /\ IdleAI /\ IdleSlot /\ IdleTurn /\ IdleSet /\ IdleLog

CallComputeAttack ==
    /\ ca_in.tag = "args"
    /\ ca_out.tag = "none"
    /\ ca_out' =
          IF build = "debug"
             /\ AttackOverflows(ca_in.attacker, ca_in.defender, ca_in.ability)
          THEN [tag |-> "panic"]
          ELSE [tag   |-> "event",
                event |-> compute_attack(ca_in.attacker, ca_in.defender,
                                         ca_in.ability)]
    /\ UNCHANGED <<build, ca_in, aiVars, slotVars, turnVars, setVars, logVars>>

NextAttack == CallComputeAttack

SpecAttack == InitAttack /\ [][NextAttack]_vars

\* attack + power - defense of the call as an exact integer 4 * q + r with
\* r in 0..3, computed on quarters so that no intermediate value leaves the
\* range of the checker's integers
CA_NetQuarters ==
    LET a == ca_in.attacker.stats.attack
        p == ca_in.ability.power
        d == ca_in.defender.stats.defense
        h == (a \div 4) + (p \div 4) - (d \div 4)
        l == (a % 4) + (p % 4) - (d % 4)
    IN  [q |-> h + (l \div 4), r |-> l % 4]

\* C1: for a non-negative ability power compute_attack returns the damage
\* max(1, attack + power - defense), which is at least 1; power = 0 counts
\* as an attack.
C1_AttackDamage ==
    (ca_in.tag = "args" /\ ca_out.tag # "none" /\ ca_in.ability.power >= 0) =>
        /\ ca_out.tag = "event"
        /\ ca_out.event.damage >= 1
        /\ LET net == CA_NetQuarters
           IN  IF net.q < 0 \/ (net.q = 0 /\ net.r <= 1)
               THEN ca_out.event.damage = 1
               ELSE /\ ca_out.event.damage \div 4 = net.q
                    /\ ca_out.event.damage % 4 = net.r

\* C2: for a negative ability power compute_attack returns the power itself
\* as damage, whatever the attack and defense, and the defender's hp after
\* is hp - power, above the hp before (and not capped at the maximum).
C2_HealDamage ==
    (ca_in.tag = "args" /\ ca_out.tag # "none" /\ ca_in.ability.power < 0) =>
        /\ ca_out.tag = "event"
        /\ ca_out.event.damage = ca_in.ability.power
        /\ ca_out.event.defender_hp_after > ca_in.defender.hp
        /\ ca_out.event.defender_hp_after + ca_in.ability.power
              = ca_in.defender.hp

\* C18: every event compute_attack returns has defender_hp_after equal to
\* defender.hp - damage (an exact difference, with no floor at zero), for
\* either sign of the power and any hp, and carries the attacker's name, the
\* defender's name and the ability's name.
C18_HpAfterConsistency ==
    (ca_in.tag = "args" /\ ca_out.tag = "event") =>
        /\ ~SubOverflows(ca_in.defender.hp, ca_out.event.damage)
        /\ ca_out.event.defender_hp_after
              = ca_in.defender.hp - ca_out.event.damage
        /\ ca_out.event.attacker_name = ca_in.attacker.name
        /\ ca_out.event.defender_name = ca_in.defender.name
        /\ ca_out.event.ability_used = ca_in.ability.name

(***************************************************************************)
(* SpecAI: choose_monster_action on every monster and ability list of a    *)
(* bounded input space.                                                    *)
(***************************************************************************)
MaxAbilities == 3

\* two abilities of each type, so that "the first of its type" is visible;
\* each either ready or not (a positive counter, or a negative one)
AbilityPool ==
    {MkAbilityWithMeta(basic_attack, "BasicAttack", 0, c) : c \in {0, 2}}
    \cup {MkAbilityWithMeta(quick_strike, "BasicAttack", 1, c) : c \in {0, -1}}
    \cup {MkAbilityWithMeta(powerful_attack, "PowerfulAttack", 3, c) : c \in {0, 2}}
    \cup {MkAbilityWithMeta(MkAbility("Smash", 9), "PowerfulAttack", 2, c) : c \in {0, -1}}
    \cup {MkAbilityWithMeta(heal, "Heal", 4, c) : c \in {0, 2}}
    \cup {MkAbilityWithMeta(MkAbility("Mend", -3), "Heal", 2, c) : c \in {0, -1}}

AbilityLists == UNION {[1..n -> AbilityPool] : n \in 0..MaxAbilities}

MonsterMaxHpVals == {-10, 0, 10}

MonsterHpVals == {-3, 0, 2, 3, 4, 7, 8, 10}

\* <<hp, stats.hp>> beyond the 24 bits an f32 holds exactly
LargeHpPairs ==
    {<<50820330, 169401100>>, <<50820331, 169401104>>, <<7000005, 10000007>>,
     <<50000000, 100000000>>}

MonsterHpPairs == (MonsterHpVals \X MonsterMaxHpVals) \cup LargeHpPairs

InitAI ==
    /\ build = "release"
    /\ \E pair \in MonsterHpPairs, abs \in AbilityLists :
          LET hp == pair[1]
              maxhp == pair[2]
          IN
          ai_in = [tag       |-> "args",
                   monster   |-> MkCharacter("Slime", hp, MkStats(maxhp, 6, 1)),
                   player    |-> new_player("Hero"),
                   abilities |-> abs]
    /\ ai_out = NoResult
    /\ IdleAttack /\ IdleSlot /\ IdleTurn /\ IdleSet /\ IdleLog

CallChooseMonsterAction ==
    /\ ai_in.tag = "args"
    /\ ai_out.tag = "none"
    /\ ai_out' = [tag     |-> "ability",
                  ability |-> choose_monster_action(ai_in.monster, ai_in.player,
                                                    ai_in.abilities)]
    /\ UNCHANGED <<build, ai_in, attackVars, slotVars, turnVars, setVars, logVars>>

NextAI == CallChooseMonsterAction

SpecAI == InitAI /\ [][NextAI]_vars

\* The exact fraction monster.hp / monster.stats.hp of the call, compared with
\* n/d (the fraction is undefined for stats.hp = 0).
AI_RatioBelow(n, d) ==
    LET hp == ai_in.monster.hp
        mx == ai_in.monster.stats.hp
    IN  \/ (mx > 0 /\ d * hp < n * mx)
        \/ (mx < 0 /\ d * hp > n * mx)

AI_RatioAbove(n, d) ==
    LET hp == ai_in.monster.hp
        mx == ai_in.monster.stats.hp
    IN  \/ (mx > 0 /\ d * hp > n * mx)
        \/ (mx < 0 /\ d * hp < n * mx)

AI_RatioDefined == ai_in.monster.stats.hp # 0

\* positions of the supplied entries of type t that are off cooldown
AI_Ready(t) ==
    {i \in DOMAIN ai_in.abilities :
        /\ ai_in.abilities[i].ability_type = t
        /\ ai_in.abilities[i].current_cooldown = 0}

AI_IsFirstReady(i, t) == i \in AI_Ready(t) /\ \A j \in AI_Ready(t) : i <= j

\* the result is the ability of no supplied entry of type t
AI_NeverOfType(t) ==
    \A i \in DOMAIN ai_in.abilities :
        ai_in.abilities[i].ability_type = t
            => ai_out.ability # ai_in.abilities[i].ability

\* the result is the first ready entry of type t1, else the first ready
\* BasicAttack entry, else the hard-coded Basic Attack
AI_PreferenceChain(t1) ==
    /\ \A i \in DOMAIN ai_in.abilities :
          AI_IsFirstReady(i, t1) => ai_out.ability = ai_in.abilities[i].ability
    /\ \A i \in DOMAIN ai_in.abilities :
          (AI_Ready(t1) = {} /\ AI_IsFirstReady(i, "BasicAttack"))
              => ai_out.ability = ai_in.abilities[i].ability
    /\ (AI_Ready(t1) = {} /\ AI_Ready("BasicAttack") = {})
          => ai_out.ability = MkAbility("Basic Attack", 5)

\* C6: with hp / stats.hp anywhere in the closed band 0.30 .. 0.70, the
\* boundaries included, the policy returns the first ready BasicAttack entry
\* if there is one and never a Heal or PowerfulAttack entry.
C6_BoundaryBand ==
    (/\ ai_out.tag = "ability"
     /\ AI_RatioDefined
     /\ ~AI_RatioBelow(3, 10)
     /\ ~AI_RatioAbove(7, 10)) =>
        /\ \A i \in DOMAIN ai_in.abilities :
              AI_IsFirstReady(i, "BasicAttack")
                  => ai_out.ability = ai_in.abilities[i].ability
        /\ AI_NeverOfType("Heal")
        /\ AI_NeverOfType("PowerfulAttack")

\* C7: with hp / stats.hp below 0.30 the policy returns the first ready Heal
\* entry, else the first ready BasicAttack entry, else the hard-coded Basic
\* Attack, and never a PowerfulAttack entry.
C7_LowBand ==
    (ai_out.tag = "ability" /\ AI_RatioBelow(3, 10)) =>
        /\ AI_PreferenceChain("Heal")
        /\ AI_NeverOfType("PowerfulAttack")

\* C8: with hp / stats.hp above 0.70 the policy returns the first ready
\* PowerfulAttack entry, else the first ready BasicAttack entry, else the
\* hard-coded Basic Attack, and never a Heal entry.
C8_HighBand ==
    (ai_out.tag = "ability" /\ AI_RatioAbove(7, 10)) =>
        /\ AI_PreferenceChain("PowerfulAttack")
        /\ AI_NeverOfType("Heal")

\* C9: the policy returns an ability for every input, the empty list and a
\* list wholly on cooldown included, and the ability is that of a supplied
\* entry with current_cooldown = 0 or the hard-coded Basic Attack.
C9_Total ==
    (ai_in.tag = "args" /\ ai_out # NoResult) =>
        /\ ai_out.tag = "ability"
        /\ \/ ai_out.ability = MkAbility("Basic Attack", 5)
           \/ \E i \in DOMAIN ai_in.abilities :
                 /\ ai_in.abilities[i].current_cooldown = 0
                 /\ ai_out.ability = ai_in.abilities[i].ability

C9_Witness ==
    /\ ai_out.tag = "ability"
    /\ Len(ai_in.abilities) = 3
    /\ \A i \in DOMAIN ai_in.abilities :
          /\ ai_in.abilities[i].current_cooldown # 0
          /\ ai_in.abilities[i].ability # MkAbility("Basic Attack", 5)
    /\ ai_out.ability = MkAbility("Basic Attack", 5)

(***************************************************************************)
(* SpecSlot: one AbilitySlot, constructed by AbilitySlot::new with any     *)
(* cooldown_max of a bounded range, under use_ability() and tick(delta)    *)
(* with any delta of a bounded range, negative ones included (both are     *)
(* plain f32 arguments of public functions).  Beside a few units around    *)
(* zero the ranges hold the 0.5 s cooldown of AbilitySet::player_default   *)
(* and the 0.1 s step of the cooldown tests.  slot_op records the last     *)
(* call, cooldown_current before it, whether a negative delta has been     *)
(* passed so far, whether use_ability has been called, and the number and  *)
(* the exact sum of the deltas ticked since the last use_ability (since    *)
(* new before the first).                                                  *)
(***************************************************************************)
MaxCooldown == 4

MaxDelta == 3

MaxCurrent == 6

MaxTicks == 5

\* 0.5f32 seconds
HalfSecond == 67108864

\* 0.1f32 seconds
TenthSecond == 13421773

CooldownMaxVals == ((-2) .. MaxCooldown) \cup {HalfSecond}

DeltaVals == ((-2) .. MaxDelta) \cup {TenthSecond}

InitSlot ==
    /\ build = "release"
    /\ \E cm \in CooldownMaxVals : slot = AbilitySlot_new(basic_attack, cm)
    /\ slot_op = [tag |-> "new", delta |-> 0, before |-> 0,
                  negative_delta |-> FALSE, used |-> FALSE, ticks |-> 0,
                  sum |-> 0]
    /\ IdleAttack /\ IdleAI /\ IdleTurn /\ IdleSet /\ IdleLog

SlotUseAbility ==
    /\ slot.tag = "slot"
    /\ slot' = use_ability(slot)
    /\ slot_op' = [slot_op EXCEPT !.tag = "use_ability", !.delta = 0,
                                  !.before = slot.cooldown_current,
                                  !.used = TRUE, !.ticks = 0, !.sum = 0]
    /\ UNCHANGED <<build, attackVars, aiVars, turnVars, setVars, logVars>>

SlotTick ==
    /\ slot.tag = "slot"
    /\ \E delta \in DeltaVals :
          /\ slot_op.ticks < MaxTicks
          /\ tick(slot, delta).cooldown_current
                <= Max(MaxCurrent, slot.cooldown_max)
          /\ slot' = tick(slot, delta)
          /\ slot_op' = [tag            |-> "tick",
                         delta          |-> delta,
                         before         |-> slot.cooldown_current,
                         negative_delta |-> slot_op.negative_delta \/ delta < 0,
                         used           |-> slot_op.used,
                         ticks          |-> slot_op.ticks + 1,
                         sum            |-> slot_op.sum + delta]
    /\ UNCHANGED <<build, attackVars, aiVars, turnVars, setVars, logVars>>

NextSlot == SlotUseAbility \/ SlotTick

SpecSlot == InitSlot /\ [][NextSlot]_vars

\* C10 as stated: after AbilitySlot::new and after every use_ability() and
\* tick(delta), 0 <= cooldown_current <= cooldown_max.
C10_Original ==
    slot.tag = "slot" =>
        (0 <= slot.cooldown_current /\ slot.cooldown_current <= slot.cooldown_max)

\* C10 amended: the same bounds, for a slot constructed with
\* cooldown_max >= 0 and ticked only with deltas >= 0.
C10_CooldownBounds ==
    (slot.tag = "slot" /\ slot.cooldown_max >= 0 /\ ~slot_op.negative_delta) =>
        (0 <= slot.cooldown_current /\ slot.cooldown_current <= slot.cooldown_max)

C10_Witness ==
    /\ slot.tag = "slot"
    /\ slot.cooldown_max > 0
    /\ ~slot_op.negative_delta
    /\ slot_op.tag = "tick"
    /\ slot_op.before = slot.cooldown_max
    /\ slot_op.delta > slot_op.before
    /\ slot.cooldown_current = 0

\* C11 as stated: in every state a slot reaches through new, use_ability and
\* tick, tick(0) leaves cooldown_current unchanged.
C11_Original ==
    slot.tag = "slot" =>
        tick(slot, 0).cooldown_current = slot.cooldown_current

\* C11 amended: the same, for a slot constructed with cooldown_max >= 0.
C11_TickZeroIdempotent ==
    (slot.tag = "slot" /\ slot.cooldown_max >= 0) =>
        tick(slot, 0).cooldown_current = slot.cooldown_current

\* tick(0) has just been called on a slot that is on cooldown
C11_Witness ==
    /\ slot.tag = "slot"
    /\ slot.cooldown_max > 0
    /\ slot_op.tag = "tick"
    /\ slot_op.delta = 0
    /\ slot_op.before > 0
    /\ slot.cooldown_current = slot_op.before

\* C12 as stated: a slot with cooldown_max <= 0 is ready, with progress 0,
\* in every state, whatever use_ability() and tick(delta) calls were made.
C12_Original ==
    (slot.tag = "slot" /\ slot.cooldown_max <= 0) =>
        (slot_is_ready(slot) /\ cooldown_progress(slot) = 0)

\* C12 amended: the same, when every tick was given a delta >= 0.
C12_NoCooldownAlwaysReady ==
    (slot.tag = "slot" /\ slot.cooldown_max <= 0 /\ ~slot_op.negative_delta) =>
        (slot_is_ready(slot) /\ cooldown_progress(slot) = 0)

\* a slot with a negative cooldown_max has been used and then ticked
C12_Witness ==
    /\ slot.tag = "slot"
    /\ slot.cooldown_max < 0
    /\ ~slot_op.negative_delta
    /\ slot_op.tag = "tick"
    /\ slot_op.before < 0
    /\ slot_op.delta > 0
    /\ slot_is_ready(slot)

\* C13 (AbilitySlot): once a slot with a positive cooldown_max has been used,
\* and with deltas >= 0 throughout, is_ready() is false while the sum of the
\* deltas ticked since use_ability() is below cooldown_max and true once the
\* sum has reached it.
C13_CooldownGating ==
    (/\ slot.tag = "slot"
     /\ slot.cooldown_max > 0
     /\ slot_op.used
     /\ ~slot_op.negative_delta) =>
        (slot_is_ready(slot) <=> slot_op.sum >= slot.cooldown_max)

(***************************************************************************)
(* SpecSet: one AbilitySet of up to MaxSlots slots.  get_ready_ability is  *)
(* called with any index up to one past the largest valid one; the slot it *)
(* hands out is used (the `if let Some(slot) = .. { slot.use_ability() }`  *)
(* of the callers) or left alone; tick_all advances every cooldown.        *)
(***************************************************************************)
MaxSlots == 2

SetCooldownVals == {0, 1, 2}

SetDeltaVals == {1, 2}

SetIndexVals == 0 .. MaxSlots

SlotLists ==
    UNION {[1..n -> {AbilitySlot_new(a, cm) :
                        a \in {basic_attack, heal}, cm \in SetCooldownVals}]
           : n \in 0..MaxSlots}

InitSet ==
    /\ build = "release"
    /\ ability_set \in SlotLists
    /\ set_out = [op |-> "new", index |-> 0, result |-> None]
    /\ IdleAttack /\ IdleAI /\ IdleSlot /\ IdleTurn /\ IdleLog

SetGetReadyAbility ==
    /\ \E index \in SetIndexVals :
          set_out' = [op     |-> "get_ready_ability",
                      index  |-> index,
                      result |-> get_ready_ability(ability_set, index)]
    /\ UNCHANGED <<build, attackVars, aiVars, slotVars, turnVars, logVars,
                   ability_set>>

SetUseReadyAbility ==
    /\ \E index \in SetIndexVals :
          LET got == get_ready_ability(ability_set, index)
          IN  /\ set_out' = [op |-> "use", index |-> index, result |-> got]
              /\ ability_set' =
                    IF got.tag = "Some"
                    THEN [ability_set EXCEPT ![index + 1] = use_ability(got.value)]
                    ELSE ability_set
    /\ UNCHANGED <<build, attackVars, aiVars, slotVars, turnVars, logVars>>

SetTickAll ==
    /\ \E delta \in SetDeltaVals :
          /\ ability_set' = tick_all(ability_set, delta)
          /\ set_out' = [op |-> "tick_all", index |-> 0, result |-> None]
    /\ UNCHANGED <<build, attackVars, aiVars, slotVars, turnVars, logVars>>

NextSet == SetGetReadyAbility \/ SetUseReadyAbility \/ SetTickAll

SpecSet == InitSet /\ [][NextSet]_vars

\* C14: get_ready_ability(index) returns the slot at index exactly when the
\* index is within bounds and that slot is ready, returns None otherwise
\* (out of range or on cooldown), and the call changes no slot.
C14_GetReadyAbility ==
    [][set_out'.op = "get_ready_ability" =>
          LET i == set_out'.index
              inRange == i < Len(ability_set)
          IN  /\ ability_set' = ability_set
              /\ set_out'.result.tag \in {"Some", "None"}
              /\ set_out'.result.tag = "Some"
                    <=> (inRange /\ ability_set[i + 1].cooldown_current <= 0)
              /\ set_out'.result.tag = "Some"
                    => set_out'.result.value = ability_set[i + 1]]_vars

\* None for a slot that is within bounds but still on cooldown
C14_Witness ==
    /\ set_out.op = "get_ready_ability"
    /\ set_out.index < Len(ability_set)
    /\ ability_set[set_out.index + 1].cooldown_current > 0
    /\ set_out.result = None

\* None for an index past the end
C14_WitnessOutOfRange ==
    /\ set_out.op = "get_ready_ability"
    /\ set_out.index >= Len(ability_set)
    /\ Len(ability_set) > 0
    /\ set_out.result = None

(***************************************************************************)
(* SpecLog: one CombatLog, constructed by CombatLog::new with any capacity *)
(* up to MaxCapacity (0 is what #[derive(Default)] gives), under up to     *)
(* MaxAdds calls of add with messages that repeat.                         *)
(***************************************************************************)
MaxCapacity == 3

MaxAdds == 6

LogMessages == {MsgMonsterTurn, MsgPlayerTurn}

InitLog ==
    /\ build = "release"
    /\ \E capacity \in 0..MaxCapacity : log = CombatLog_new(capacity)
    /\ log_added = <<>>
    /\ IdleAttack /\ IdleAI /\ IdleSlot /\ IdleSet /\ IdleTurn

LogAdd ==
    /\ Len(log_added) < MaxAdds
    /\ \E message \in LogMessages :
          /\ log' = CombatLog_add(log, message)
          /\ log_added' = Append(log_added, message)
    /\ UNCHANGED <<build, attackVars, aiVars, slotVars, setVars, turnVars>>

NextLog == LogAdd

SpecLog == InitLog /\ [][NextLog]_vars

\* C15: after k calls of add on a log of capacity N the log holds exactly the
\* last min(k, N) messages added, in the order they were added, duplicates
\* kept; so its length never exceeds N.
C15_BoundedFifo ==
    LET k == Len(log_added)
        n == Min(k, log.max_events)
    IN  /\ Len(log.events) = n
        /\ Len(log.events) <= log.max_events
        /\ \A i \in 1..n : log.events[i] = log_added[k - n + i]

\* two evictions from a log of capacity 2 that holds the same message twice
C15_Witness ==
    /\ log.max_events = 2
    /\ Len(log_added) = 4
    /\ log_added[1] # log_added[4]
    /\ log.events = <<log_added[3], log_added[4]>>
    /\ log_added[3] = log_added[4]

(***************************************************************************)
(* Spec: the combat application.  main() inserts the resources, setup      *)
(* spawns Hero and Slime and logs the two welcome lines, then every frame  *)
(* runs handle_player_turn, handle_monster_turn and check_game_over in     *)
(* this order.  The encounter starts at full health; the two attack stats  *)
(* and the monster's maximum hp range over a few values (the constructors' *)
(* 10, 6 and 20 among them) so that every band of the monster's policy,    *)
(* a heal that reaches the maximum, hits floored at 1 damage, repeated     *)
(* heals and both victories occur.  With these stats no i32 operation of a *)
(* turn overflows, so debug and release builds behave alike.               *)
(***************************************************************************)
PlayerAttackVals == {-6, 1, 3, 10}

MonsterAttackVals == {-20, 2, 6, 100}

MonsterStartHpVals == {6, 20}

Init ==
    /\ build = "release"
    /\ IdleAttack /\ IdleAI /\ IdleSlot /\ IdleSet /\ IdleLog
    /\ combat_state = PlayerTurn
    /\ \E atk \in PlayerAttackVals :
          player = [new_player("Hero") EXCEPT !.stats.attack = atk]
    /\ \E atk \in MonsterAttackVals, hp \in MonsterStartHpVals :
          monster = [new_monster("Slime") EXCEPT !.stats.attack = atk,
                                                 !.stats.hp = hp, !.hp = hp]
    /\ player_present = TRUE
    /\ monster_present = TRUE
    /\ monster_abilities = MonsterAbilities_new
    /\ timer = Timer_new
    /\ combat_log = CombatLog_add_all(CombatLog_new(max_events),
                                      <<MsgCombatStart, MsgPressSpace>>)
    /\ state_changed = TRUE
    /\ pc = "handle_player_turn"
    /\ last = [sys |-> "setup", acted |-> FALSE, actor |-> "none", ability |-> "",
               pressed |-> FALSE]
    /\ waited = 0
    /\ recent = <<>>

Next == handle_player_turn \/ handle_monster_turn \/ check_game_over

Spec == Init /\ [][Next]_vars

\* the step is an executed player turn / an executed monster turn
PlayerActs == last'.acted /\ last'.sys = "handle_player_turn"

MonsterActs == last'.acted /\ last'.sys = "handle_monster_turn"

\* C3: a player action that leaves the monster alive moves PlayerTurn to
\* MonsterTurn, a monster action (attack or self-heal) that leaves the player
\* alive moves MonsterTurn to PlayerTurn, and no actor acts twice in a row.
C3_TurnAlternation ==
    [][/\ PlayerActs =>
             /\ combat_state = PlayerTurn
             /\ last.actor # "player"
             /\ (monster'.hp > 0 => combat_state' = MonsterTurn)
       /\ MonsterActs =>
             /\ combat_state = MonsterTurn
             /\ last.actor # "monster"
             /\ (player'.hp > 0 => combat_state' = PlayerTurn)]_vars

C3_Witness ==
    /\ last.acted
    /\ last.sys = "handle_monster_turn"
    /\ last.ability = "Heal"
    /\ player.hp > 0
    /\ combat_state = PlayerTurn

\* C4: a lethal player action sets GameOver with the player's name, a lethal
\* monster action sets GameOver with the monster's name, and GameOver is
\* entered in no other way: only by an action that left its defender at
\* hp <= 0, with the attacker as winner.
C4_LethalEndsEncounter ==
    [][/\ (PlayerActs /\ monster'.hp <= 0)
             => combat_state' = [tag |-> "GameOver", winner |-> player.name]
       /\ (MonsterActs /\ player'.hp <= 0)
             => combat_state' = [tag |-> "GameOver", winner |-> monster.name]
       /\ (combat_state.tag # "GameOver" /\ combat_state'.tag = "GameOver")
             => \/ /\ PlayerActs
                   /\ monster'.hp <= 0
                   /\ player'.hp > 0
                   /\ combat_state'.winner = player.name
                \/ /\ MonsterActs
                   /\ last'.ability # "Heal"
                   /\ player'.hp <= 0
                   /\ monster'.hp > 0
                   /\ combat_state'.winner = monster.name]_vars

C4_Witness ==
    /\ combat_state = [tag |-> "GameOver", winner |-> "Slime"]
    /\ last.sys = "handle_monster_turn"
    /\ last.acted
    /\ player.hp <= 0

C4_WitnessPlayer ==
    /\ combat_state = [tag |-> "GameOver", winner |-> "Hero"]
    /\ last.sys = "handle_player_turn"
    /\ last.acted
    /\ monster.hp <= 0

\* C5: once CombatState is GameOver, no later step - whatever the key state
\* and the elapsed time - changes CombatState, either character or any
\* monster ability cooldown.
C5_GameOverPermanent ==
    [][combat_state.tag = "GameOver" =>
          /\ combat_state' = combat_state
          /\ player' = player
          /\ monster' = monster
          /\ monster_abilities' = monster_abilities
          /\ ~last'.acted]_vars

\* a full frame has run after the one that ended the encounter
C5_Witness ==
    /\ combat_state.tag = "GameOver"
    /\ last.sys = "handle_monster_turn"
    /\ ~last.acted
    /\ ~state_changed
    /\ Len(combat_log.events) = max_events
    /\ combat_log.events[max_events] = MsgClose

\* the step is the monster healing itself
MonsterHeals == MonsterActs /\ last'.ability = "Heal"

\* C16: from an encounter that starts at full health, neither character's hp
\* ever exceeds its stats.hp, and a monster self-heal sets monster.hp to
\* min(hp + 8, stats.hp).
C16_HealCap ==
    /\ [](monster.hp <= monster.stats.hp /\ player.hp <= player.stats.hp)
    /\ [][MonsterHeals =>
             /\ monster'.hp = Min(monster.hp + 8, monster.stats.hp)
             /\ monster'.stats = monster.stats
             /\ player' = player]_vars

\* a heal of a monster within 8 of its maximum: the cap decided the result
C16_Witness ==
    /\ last.acted
    /\ last.sys = "handle_monster_turn"
    /\ last.ability = "Heal"
    /\ monster.hp = monster.stats.hp
    /\ monster.hp = 6

\* Hero (30, 10, 2) against Slime (20, 6, 1), the constructors' stats
DefaultEncounter ==
    /\ player.stats = MkStats(30, 10, 2)
    /\ monster.stats = MkStats(20, 6, 1)

\* C17: in the default encounter the first player hit leaves the monster at
\* 6 hp in MonsterTurn, the monster's action leaves the player at 21 hp in
\* PlayerTurn, and the second player hit leaves the monster at -8 hp in
\* GameOver with winner "Hero"; no other hp or state occurs.
C17_DefaultOutcome ==
    /\ [](DefaultEncounter =>
             <<monster.hp, player.hp, combat_state>> \in
                 {<<20, 30, [tag |-> "PlayerTurn", winner |-> ""]>>,
                  <<6, 30, [tag |-> "MonsterTurn", winner |-> ""]>>,
                  <<6, 21, [tag |-> "PlayerTurn", winner |-> ""]>>,
                  <<-8, 21, [tag |-> "GameOver", winner |-> "Hero"]>>})
    /\ [][DefaultEncounter =>
             /\ (PlayerActs /\ monster.hp = 20) =>
                    /\ monster'.hp = 6
                    /\ player'.hp = 30
                    /\ combat_state'.tag = "MonsterTurn"
             /\ MonsterActs =>
                    /\ monster'.hp = 6
                    /\ player'.hp = 21
                    /\ combat_state'.tag = "PlayerTurn"
             /\ (PlayerActs /\ monster.hp = 6) =>
                    /\ monster'.hp = -8
                    /\ player'.hp = 21
                    /\ combat_state' = [tag |-> "GameOver", winner |-> "Hero"]]_vars

C17_Witness ==
    /\ DefaultEncounter
    /\ combat_state = [tag |-> "GameOver", winner |-> "Hero"]
    /\ monster.hp = -8
    /\ player.hp = 21

\* C19: an attack trigger received in MonsterTurn or GameOver changes
\* neither CombatState, nor either character, nor the monster's cooldowns,
\* nor the combat log.
C19_InputOnlyInPlayerTurn ==
    [][(/\ pc = "handle_player_turn"
        /\ last'.pressed
        /\ combat_state.tag \in {"MonsterTurn", "GameOver"}) =>
          /\ ~last'.acted
          /\ combat_state' = combat_state
          /\ player' = player
          /\ monster' = monster
          /\ monster_abilities' = monster_abilities
          /\ combat_log' = combat_log]_vars

\* the key was pressed while the monster was thinking
C19_Witness ==
    /\ last.sys = "handle_player_turn"
    /\ last.pressed
    /\ ~last.acted
    /\ combat_state.tag = "MonsterTurn"

\* the key was pressed after the encounter had ended
C19_WitnessGameOver ==
    /\ last.sys = "handle_player_turn"
    /\ last.pressed
    /\ ~last.acted
    /\ combat_state.tag = "GameOver"

\* C20: in MonsterTurn the monster does nothing (no hp, cooldown, state or
\* log change) while the time ticked since the turn began is below the
\* 1-second delay; in the frame that brings it to the delay the monster acts,
\* once, whatever the input, and the timer starts over, so that every
\* monster turn begins with a fresh timer and waits the full delay.
C20_ThinkingDelay ==
    [][/\ (/\ pc = "handle_monster_turn"
           /\ combat_state.tag = "MonsterTurn"
           /\ waited' < TimerDuration) =>
              /\ ~last'.acted
              /\ combat_state' = combat_state
              /\ player' = player
              /\ monster' = monster
              /\ monster_abilities' = monster_abilities
              /\ combat_log' = combat_log
       /\ (/\ pc = "handle_monster_turn"
           /\ combat_state.tag = "MonsterTurn"
           /\ waited' >= TimerDuration) =>
              /\ MonsterActs
              /\ combat_state'.tag # "MonsterTurn"
              /\ timer' = [elapsed |-> 0, finished |-> FALSE]
       /\ MonsterActs =>
              /\ combat_state.tag = "MonsterTurn"
              /\ waited < TimerDuration
              /\ waited' >= TimerDuration
       /\ (combat_state.tag # "MonsterTurn" /\ combat_state'.tag = "MonsterTurn") =>
              /\ waited' = 0
              /\ timer' = [elapsed |-> 0, finished |-> FALSE]]_vars

\* the monster has acted for at least the second time (its Powerful Attack,
\* used in an earlier turn, has cooled down by one), after a full delay
C20_Witness ==
    /\ last.sys = "handle_monster_turn"
    /\ last.acted
    /\ waited >= TimerDuration
    /\ timer = [elapsed |-> 0, finished |-> FALSE]
    /\ monster_abilities[2].ability.name = "Powerful Attack"
    /\ monster_abilities[2].current_cooldown = 2

\* C21 as stated: no step of the encounter raises the player's hp or the
\* monster's hp.
C21_Original ==
    [][player'.hp <= player.hp /\ monster'.hp <= monster.hp]_vars

\* C21: the player's hp never rises, and the monster's hp rises only in a
\* monster turn that uses Heal, by at most 8 and not above its maximum; every
\* other executed turn lowers the hp of the character it hits.
C21_HpNonIncreasing ==
    [][/\ player'.hp <= player.hp
       /\ (monster'.hp > monster.hp) =>
             /\ MonsterHeals
             /\ monster'.hp <= monster.hp + 8
             /\ monster'.hp <= monster.stats.hp
       /\ PlayerActs => monster'.hp < monster.hp
       /\ (MonsterActs /\ ~MonsterHeals) => player'.hp < player.hp]_vars

\* the monster has just healed itself after at least one hit by each side
C21_Witness ==
    /\ last.sys = "handle_monster_turn"
    /\ last.acted
    /\ last.ability = "Heal"
    /\ monster.hp < monster.stats.hp
    /\ player.hp < player.stats.hp

(***************************************************************************)
(* SpecMonsterFirst: the application with CombatState set to MonsterTurn   *)
(* before the first frame, as the integration tests do to exercise a       *)
(* monster turn on a fresh encounter.                                      *)
(***************************************************************************)
InitMonsterFirst ==
    /\ build = "release"
    /\ IdleAttack /\ IdleAI /\ IdleSlot /\ IdleSet /\ IdleLog
    /\ combat_state = MonsterTurn
    /\ \E atk \in PlayerAttackVals :
          player = [new_player("Hero") EXCEPT !.stats.attack = atk]
    /\ \E atk \in MonsterAttackVals, hp \in MonsterStartHpVals :
          monster = [new_monster("Slime") EXCEPT !.stats.attack = atk,
                                                 !.stats.hp = hp, !.hp = hp]
    /\ player_present = TRUE
    /\ monster_present = TRUE
    /\ monster_abilities = MonsterAbilities_new
    /\ timer = Timer_new
    /\ combat_log = CombatLog_add_all(CombatLog_new(max_events),
                                      <<MsgCombatStart, MsgPressSpace>>)
    /\ state_changed = TRUE
    /\ pc = "handle_player_turn"
    /\ last = [sys |-> "setup", acted |-> FALSE, actor |-> "none", ability |-> "",
               pressed |-> FALSE]
    /\ waited = 0
    /\ recent = <<>>

SpecMonsterFirst == InitMonsterFirst /\ [][Next]_vars

\* Hero and Slime with the constructors' stats, both at full hp, and every
\* monster ability off cooldown
FreshEncounter ==
    /\ DefaultEncounter
    /\ player.hp = player.stats.hp
    /\ monster.hp = monster.stats.hp
    /\ \A i \in DOMAIN monster_abilities :
          monster_abilities[i].current_cooldown = 0

C23_NoOverflow ==
    (ca_in.tag = "args") =>
        /\ ~AttackOverflows(ca_in.attacker, ca_in.defender, ca_in.ability)
        /\ ca_out.tag # "panic"

\* the cooldown counter after the start-of-turn decrement, floored at 0
C24_Decremented(a) == Max(a.current_cooldown - 1, 0)

\* C24: in every executed monster turn the ability used is the one
\* choose_monster_action picks from the cooldowns already decremented by one
\* (floored at 0), where it is ready; after the turn exactly that ability has
\* its counter at its configured cooldown and every other ability has its
\* decremented value; the abilities themselves never change.
C24_BookkeepingOrder ==
    [][MonsterActs =>
          LET before == [i \in DOMAIN monster_abilities |->
                            [monster_abilities[i] EXCEPT
                                !.current_cooldown =
                                    C24_Decremented(monster_abilities[i])]]
              chosen == {i \in DOMAIN monster_abilities :
                            monster_abilities[i].ability.name = last'.ability}
          IN  /\ DOMAIN monster_abilities' = DOMAIN monster_abilities
              /\ Cardinality(chosen) = 1
              /\ last'.ability =
                    choose_monster_action(monster, player, before).name
              /\ \A i \in DOMAIN monster_abilities :
                    /\ monster_abilities'[i].ability = monster_abilities[i].ability
                    /\ monster_abilities'[i].cooldown = monster_abilities[i].cooldown
                    /\ IF i \in chosen
                       THEN /\ C24_Decremented(monster_abilities[i]) = 0
                            /\ monster_abilities'[i].current_cooldown
                                  = monster_abilities[i].cooldown
                       ELSE monster_abilities'[i].current_cooldown
                               = C24_Decremented(monster_abilities[i])]_vars

\* a monster turn has just used Basic Attack while Powerful Attack, used in
\* the turn before, went from 3 to 2 and Heal stayed at 0
C24_Witness ==
    /\ last.sys = "handle_monster_turn"
    /\ last.acted
    /\ last.ability = "Basic Attack"
    /\ Len(recent) >= 2
    /\ recent[Len(recent) - 1] = "Powerful Attack"
    /\ monster_abilities[1].current_cooldown = 0
    /\ monster_abilities[2].current_cooldown = 2
    /\ monster_abilities[3].current_cooldown = 0

\* C25: an executed turn changes the current hp of exactly one character:
\* the monster's on a player turn, the player's on a monster attack, the
\* monster's own on a self-heal; the other character's hp and both
\* characters' stats and names stay as they were.
C25_OneEffectPerTurn ==
    [][/\ PlayerActs =>
             /\ monster'.hp # monster.hp
             /\ player' = player
             /\ monster' = [monster EXCEPT !.hp = monster'.hp]
       /\ (MonsterActs /\ ~MonsterHeals) =>
             /\ player'.hp # player.hp
             /\ monster' = monster
             /\ player' = [player EXCEPT !.hp = player'.hp]
       /\ MonsterHeals =>
             /\ monster'.hp # monster.hp
             /\ player' = player
             /\ monster' = [monster EXCEPT !.hp = monster'.hp]]_vars

\* the monster has healed itself in a turn that follows a monster attack:
\* the player still has the hp that attack left and is below its maximum
C25_Witness ==
    /\ last.sys = "handle_monster_turn"
    /\ last.acted
    /\ last.ability = "Heal"
    /\ Len(recent) >= 2
    /\ player.hp < player.stats.hp
    /\ player.hp > 0
    /\ monster.hp > 0
    /\ combat_state = PlayerTurn

\* the last n entries of the combat log
C26_LogTail(n) ==
    LET e == combat_log.events
    IN  IF Len(e) < n THEN e ELSE SubSeq(e, Len(e) - n + 1, Len(e))

C26_Loser == IF combat_state.winner = player.name THEN monster ELSE player

\* C26: "=== GAME OVER ===" is in the log at most once and never while the
\* state is PlayerTurn or MonsterTurn; once the update that ended the
\* encounter is over, and after every later update, the log ends with the
\* loser's defeat, "=== GAME OVER ===", "<winner> wins!" and "Close the
\* window to exit.", in this order; no update in GameOver that follows
\* changes the log.
C26_AnnouncedOnce ==
    /\ [](/\ Cardinality({i \in DOMAIN combat_log.events :
                             combat_log.events[i] = MsgGameOver}) <= 1
          /\ (combat_state.tag # "GameOver") =>
                \A i \in DOMAIN combat_log.events :
                   /\ combat_log.events[i] # MsgGameOver
                   /\ combat_log.events[i] # MsgClose
                   /\ combat_log.events[i][1] # "{} wins!"
          /\ (combat_state.tag = "GameOver" /\ pc = "handle_player_turn") =>
                C26_LogTail(4) = <<MsgDefeated(C26_Loser), MsgGameOver,
                                   MsgWins(combat_state.winner), MsgClose>>)
    /\ [][(combat_state.tag = "GameOver" /\ combat_state'.tag = "GameOver"
           /\ combat_log' # combat_log) =>
              /\ pc = "check_game_over"
              /\ last.sys = "handle_monster_turn"
              /\ C26_LogTail(1) = <<MsgDefeated(C26_Loser)>>]_vars

\* an update after the one that announced the monster's victory is under
\* way (the change flag is down again) and the log still ends with the
\* announcement
C26_Witness ==
    /\ combat_state = GameOver("Slime")
    /\ pc = "handle_monster_turn"
    /\ ~state_changed
    /\ last.sys = "handle_player_turn"
    /\ last.pressed
    /\ C26_LogTail(4) = <<MsgDefeated(player), MsgGameOver, MsgWins("Slime"),
                          MsgClose>>

(***************************************************************************)
(* SpecLive: the application with a player who presses the attack key in   *)
(* every frame that finds PlayerTurn and a clock that advances in every    *)
(* frame that finds MonsterTurn.  The app runner executes the Update chain *)
(* frame after frame for as long as the window is open: the chain always   *)
(* has a next system and that system is eventually run, which is the weak  *)
(* fairness of the step that moves pc along the chain (every step of       *)
(* NextLive is such a step).                                               *)
(***************************************************************************)
PressingPlayerTurn ==
    \E just_pressed \in BOOLEAN :
        /\ (combat_state = PlayerTurn) => just_pressed
        /\ handle_player_turn_with(just_pressed)

AdvancingMonsterTurn ==
    \E delta \in 0..MaxFrameDelta :
        /\ (combat_state = MonsterTurn) => delta >= 1
        /\ handle_monster_turn_with(delta)

NextLive == PressingPlayerTurn \/ AdvancingMonsterTurn \/ check_game_over

Systems == {"handle_player_turn", "handle_monster_turn", "check_game_over"}

\* the schedule runs the next system of the chain
ChainAdvances == pc' \in Systems /\ pc' # pc

SpecLive == Init /\ [][NextLive]_vars /\ WF_pc(ChainAdvances)

\* C27: with the key pressed in every PlayerTurn and time advancing in every
\* MonsterTurn, every encounter that starts with both characters alive
\* reaches GameOver; the monster's self-heal does not postpone it forever.
C27_Terminates == <>(combat_state.tag = "GameOver")

\* an encounter in which the monster healed itself has ended
C27_Witness ==
    /\ combat_state.tag = "GameOver"
    /\ \E i \in DOMAIN recent : recent[i] = "Heal"
    /\ player.stats.hp > 0
    /\ monster.stats.hp > 0

\* C28: while the state is PlayerTurn or MonsterTurn both characters have
\* hp > 0; in GameOver the winner named by the state is one of the two
\* characters and has hp > 0, and the other has hp <= 0.
C28_AliveWhileFighting ==
    /\ (combat_state.tag \in {"PlayerTurn", "MonsterTurn"}) =>
          /\ player.hp > 0
          /\ monster.hp > 0
    /\ (combat_state.tag = "GameOver") =>
          \/ /\ combat_state.winner = player.name
             /\ player.hp > 0
             /\ monster.hp <= 0
          \/ /\ combat_state.winner = monster.name
             /\ monster.hp > 0
             /\ player.hp <= 0

\* the player has been brought to exactly 0 hp and the monster has won
C28_Witness ==
    /\ combat_state = GameOver("Slime")
    /\ player.hp = 0
    /\ monster.hp > 0

\* the player, hit at least once, has won against a monster that healed
C28_WitnessPlayer ==
    /\ combat_state = GameOver("Hero")
    /\ monster.hp <= 0
    /\ player.hp > 0
    /\ player.hp < player.stats.hp
    /\ \E i \in DOMAIN recent : recent[i] = "Heal"

\* the configured cooldown of the monster ability of this name
C29_Cooldown(name) ==
    LET i == CHOOSE j \in DOMAIN monster_abilities :
                 monster_abilities[j].ability.name = name
    IN  monster_abilities[i].cooldown

\* C29: two monster turns that use the same ability of cooldown N >= 1 are
\* at least N monster turns apart (Powerful Attack 3, Heal 4), and the
\* ability a monster turn uses has, after the start-of-turn decrement, a
\* current cooldown of 0.
C29_CooldownSpacing ==
    /\ [](\A i, j \in DOMAIN recent :
             (i < j /\ recent[i] = recent[j] /\ C29_Cooldown(recent[i]) >= 1)
                => j - i >= C29_Cooldown(recent[i]))
    /\ [][MonsterActs =>
             \A i \in DOMAIN monster_abilities :
                (monster_abilities[i].ability.name = last'.ability)
                   => monster_abilities[i].current_cooldown <= 1]_vars

\* Powerful Attack has been used again in the third monster turn after its
\* last use
C29_Witness ==
    /\ Len(recent) = MaxHistory
    /\ recent[MaxHistory] = "Powerful Attack"
    /\ recent[MaxHistory - 3] = "Powerful Attack"

(***************************************************************************)
(* SpecMissing: the application in a World from which the Player or the    *)
(* Monster entity can disappear between two frames, the case the           *)
(* None => return arms of the two turn systems are written for.            *)
(***************************************************************************)
despawn_actor ==
    /\ pc = "handle_player_turn"
    /\ player_present /\ monster_present
    /\ \E gone \in {"player", "monster"} :
          /\ player_present' = (gone # "player")
          /\ monster_present' = (gone # "monster")
    /\ UNCHANGED <<build, attackVars, aiVars, slotVars, setVars, logVars,
                   combat_state, player, monster, monster_abilities, timer,
                   combat_log, state_changed, pc, last, waited, recent>>

NextMissing == Next \/ despawn_actor

SpecMissing == Init /\ [][NextMissing]_vars

====
